---- MODULE Spec2Model ----
(***************************************************************************)
(* Model of yet_another_retnet/retention.py: the decay schedule, the decay *)
(* mask, the parallel and the recurrent retention kernels, and the         *)
(* MultiheadRetention layer built on them.                                 *)
(*                                                                         *)
(* Tensors are functions over 0-based index ranges, nested in the order of *)
(* the einops patterns of the source ("b h n d" is t[b][h][n][d]).  Tensor *)
(* entries are exact rationals [n |-> numerator, d |-> denominator > 0] in *)
(* lowest terms, so that equality of two tensors is equality of the real   *)
(* numbers the kernels compute (rounding of the floating-point back end is *)
(* not modelled, except for exp, which is rounded to FracBits binary       *)
(* digits).  An absent Optional value (None) is the empty tuple, a present *)
(* one is the one-element tuple holding it.                                *)
(***************************************************************************)
EXTENDS Integers, Sequences, FiniteSets, TLC

VARIABLES
    decay,      \* the last call of _build_decay_gammas / _build_decay_mask
    shape,      \* [B, H, D, M]: batch, heads, key dim and value dim of the caller's tensors
    gammas,     \* the decay_gammas every kernel call of the caller is given
    seqs,       \* per caller loop, the sequence of (query, key, value) steps fed so far
    refs,       \* per caller loop, the caller's prev_state variable: None or a heap reference
    heap,       \* the tensors the recurrent kernel has returned as states, by reference
    outs,       \* per caller loop, the outputs the recurrent kernel has returned, in order
    last,       \* every retention_recurrent call made: its arguments and its results
    par,        \* the last retention_parallel call: its loop, length and results
    scen,       \* the retention_parallel call of the constant-input scenario
    mhr,        \* the result of constructing MultiheadRetention
    fwd         \* the forward_parallel / forward_recurrent calls made on the layer

vars == <<decay, shape, gammas, seqs, refs, heap, outs, last, par, scen, mhr, fwd>>

(***************************************************************************)
(* Bounds of the model.                                                    *)
(***************************************************************************)
MaxHeads == 5       \* head counts given to _build_decay_gammas
MaxLen == 3         \* sequence lengths (query and key positions)
MaxDim == 2         \* batch size, head count and head dimensions of the tensors
FracBits == 10      \* binary digits exp is rounded to

\* The decay coefficients a caller passes explicitly.
GammaSet == {[n |-> 1, d |-> 2], [n |-> 3, d |-> 4], [n |-> 7, d |-> 8]}

None == <<>>
Some(x) == <<x>>
Idx(n) == 0 .. (n - 1)

\* No call of a decay helper recorded.
NoDecay ==
    [fn |-> "none", num_heads |-> 0, query_length |-> 0, key_length |-> 0,
     decay_gammas |-> None, result |-> None]

(***************************************************************************)
(* Exact rational arithmetic.                                              *)
(***************************************************************************)
Abs(x) == IF x < 0 THEN -x ELSE x

RECURSIVE GCD(_, _)
GCD(a, b) == IF b = 0 THEN a ELSE GCD(b, a % b)

RECURSIVE IPow(_, _)
IPow(b, e) == IF e = 0 THEN 1 ELSE b * IPow(b, e - 1)

Int2Rat(i) == [n |-> i, d |-> 1]
Zero == Int2Rat(0)
One == Int2Rat(1)

\* num / den in lowest terms with a positive denominator.
Rat(num, den) ==
    LET s == IF den < 0 THEN -1 ELSE 1
        g == GCD(Abs(num), Abs(den))
    IN  [n |-> (s * num) \div g, d |-> (s * den) \div g]

RAdd(x, y) ==
    IF x.n = 0 THEN y
    ELSE IF y.n = 0 THEN x
    ELSE IF x.d = y.d THEN Rat(x.n + y.n, x.d)
    ELSE LET g == GCD(x.d, y.d)
         IN  Rat(x.n * (y.d \div g) + y.n * (x.d \div g), (x.d \div g) * y.d)

RSub(x, y) == RAdd(x, [n |-> -y.n, d |-> y.d])

\* Cross-reduced before multiplying, so that no intermediate product is
\* larger than the result.
RMul(x, y) ==
    IF x.n = 0 \/ y.n = 0 THEN Zero
    ELSE IF x.d = 1 /\ y.d = 1 THEN Int2Rat(x.n * y.n)
    ELSE LET a == GCD(Abs(x.n), y.d)
             b == GCD(Abs(y.n), x.d)
         IN  [n |-> (x.n \div a) * (y.n \div b), d |-> (x.d \div b) * (y.d \div a)]

RLess(x, y) == x.n * y.d < y.n * x.d

\* g to the power k by repeated multiplication (the claims' own power).
RECURSIVE GammaPower(_, _)
GammaPower(g, k) == IF k <= 0 THEN One ELSE RMul(GammaPower(g, k - 1), g)

\* Sum of f[i] over i in 0 .. n-1, in index order.
RECURSIVE RSum(_, _)
RSum(f, n) == IF n = 0 THEN Zero ELSE RAdd(RSum(f, n - 1), f[n - 1])

(***************************************************************************)
(* _build_decay_gammas.  Logarithms and the exponents x are kept in units  *)
(* of ln 2, where log(1/32) and log(1/512) are the integers -5 and -9 and  *)
(* exp(x) is 2 to the power x.                                             *)
(***************************************************************************)
WinMin == 32
WinMax == 512

\* log of a positive rational that is a power of two, in units of ln 2.
log(r) ==
    LET k == CHOOSE e \in 0 .. 30 : IPow(2, e) = (IF r.n = 1 THEN r.d ELSE r.n)
    IN  IF r.n = 1 THEN Int2Rat(-k) ELSE Int2Rat(k)

xmin == log(Rat(1, WinMin))
xmax == log(Rat(1, WinMax))

\* torch.linspace: steps values from start to end inclusive; start alone for one step.
linspace(start, end, steps) ==
    [i \in Idx(steps) |->
        IF steps = 1 THEN start
        ELSE RAdd(start, RMul(Int2Rat(i), RMul(RSub(end, start), Rat(1, steps - 1))))]

\* torch.exp of x = a/b (units of ln 2): the b-th root of 2^a, rounded down
\* to FracBits binary digits.
exp(x) ==
    LET e == FracBits * x.d + x.n
        m == IF e < 0 THEN 0
             ELSE IF x.d = 1 THEN IPow(2, e)
             ELSE CHOOSE y \in 0 .. IPow(2, (e \div x.d) + 1) :
                     /\ IPow(y, x.d) <= IPow(2, e)
                     /\ IPow(y + 1, x.d) > IPow(2, e)
    IN  Rat(m, IPow(2, FracBits))

_build_decay_gammas_swapped(num_heads) ==
    LET x == linspace(xmin, xmax, num_heads)
    IN  [h \in Idx(num_heads) |-> RSub(exp(x[h]), One)]

_build_decay_gammas(num_heads) ==
    LET x == linspace(xmin, xmax, num_heads)
    IN  [h \in Idx(num_heads) |-> RSub(One, exp(x[h]))]

(***************************************************************************)
(* _build_decay_mask.  A distance is a natural number or +infinity.        *)
(***************************************************************************)
Fin(v) == [inf |-> FALSE, v |-> v]
Inf == [inf |-> TRUE, v |-> 0]
PosInf == [n |-> 1, d |-> 0]

arange(n) == [i \in Idx(n) |-> i]

\* torch.ones_like(distance, dtype=bool).triu_(diagonal): TRUE on and above
\* the given diagonal, FALSE below it.
triu(n, s, diagonal) == [i \in Idx(n) |-> [j \in Idx(s) |-> j - i >= diagonal]]

distance_mask_diag0(n, s) == triu(n, s, 0)

distance_mask_none(n, s) == [i \in Idx(n) |-> [j \in Idx(s) |-> FALSE]]

distance_mask(n, s) == triu(n, s, 1)

masked_fill(t, mask, value) ==
    [i \in DOMAIN t |-> [j \in DOMAIN t[i] |-> IF mask[i][j] THEN value ELSE t[i][j]]]

RECURSIVE RPow(_, _)
RPow(g, k) == IF k = 0 THEN One ELSE RMul(g, RPow(g, k - 1))

\* gamma ** distance with IEEE semantics for an infinite exponent.
pow(g, dist) ==
    IF dist.inf
    THEN IF Abs(g.n) < g.d THEN Zero
         ELSE IF Abs(g.n) = g.d THEN One
         ELSE PosInf
    ELSE RPow(g, dist.v)

_build_decay_mask(query_length, key_length, decay_gammas) ==
    LET query_pos == arange(query_length)
        key_pos == arange(key_length)
        dist0 == [i \in Idx(query_length) |-> [j \in Idx(key_length) |->
                     Fin(Abs(query_pos[i] - key_pos[j]))]]
        distance == masked_fill(dist0, distance_mask(query_length, key_length), Inf)
    IN  [h \in DOMAIN decay_gammas |-> [i \in Idx(query_length) |-> [j \in Idx(key_length) |->
            pow(decay_gammas[h], distance[i][j])]]]

(***************************************************************************)
(* The retention kernels.                                                  *)
(***************************************************************************)
Size(t) == Cardinality(DOMAIN t)

\* einsum contraction over the last axis of two vectors of equal length.
Dot(x, y) == RSum([d \in DOMAIN x |-> RMul(x[d], y[d])], Size(x))

default_gammas(decay_gammas, num_heads) ==
    IF decay_gammas = None THEN _build_decay_gammas(num_heads) ELSE decay_gammas[1]

\* query, key, value: t[b][h][n][d].
retention_parallel(query, key, value, decay_gammas, need_weights) ==
    LET gam == default_gammas(decay_gammas, Size(query[0]))
        decay_mask == _build_decay_mask(Size(query[0][0]), Size(key[0][0]), gam)
        sim0 == [b \in DOMAIN query |-> [h \in DOMAIN query[b] |->
                    [n \in DOMAIN query[b][h] |-> [s \in DOMAIN key[b][h] |->
                        Dot(query[b][h][n], key[b][h][s])]]]]
        similarity == [b \in DOMAIN sim0 |-> [h \in DOMAIN sim0[b] |->
                          [n \in DOMAIN sim0[b][h] |-> [s \in DOMAIN sim0[b][h][n] |->
                              RMul(sim0[b][h][n][s], decay_mask[h][n][s])]]]]
        retention == [b \in DOMAIN similarity |-> [h \in DOMAIN similarity[b] |->
                         [n \in DOMAIN similarity[b][h] |-> [d \in DOMAIN value[b][h][0] |->
                             RSum([s \in DOMAIN value[b][h] |->
                                      RMul(similarity[b][h][n][s], value[b][h][s][d])],
                                  Size(value[b][h]))]]]]
    IN  [retention |-> retention,
         weights |-> IF need_weights THEN Some(similarity) ELSE None]

\* state = einsum(key, value); if prev_state is not None: state = state + prev_state * gamma
next_state_decay_new(kv, prev_state, gam) ==
    IF prev_state # None
    THEN [b \in DOMAIN kv |-> [h \in DOMAIN kv[b] |-> [d \in DOMAIN kv[b][h] |->
             [m \in DOMAIN kv[b][h][d] |->
                 RAdd(RMul(kv[b][h][d][m], gam[h]), prev_state[1][b][h][d][m])]]]]
    ELSE kv

next_state(kv, prev_state, gam) ==
    IF prev_state # None
    THEN [b \in DOMAIN kv |-> [h \in DOMAIN kv[b] |-> [d \in DOMAIN kv[b][h] |->
             [m \in DOMAIN kv[b][h][d] |->
                 RAdd(kv[b][h][d][m], RMul(prev_state[1][b][h][d][m], gam[h]))]]]]
    ELSE kv

\* The state the query is contracted with.
read_state_prev(state, prev_state) == IF prev_state # None THEN prev_state[1] ELSE state

read_state(state, prev_state) == state

\* query, key, value: t[b][h][d]; prev_state: None or Some(S), S[b][h][d][m].
retention_recurrent(query, key, value, prev_state, decay_gammas) ==
    LET gam == default_gammas(decay_gammas, Size(query[0]))
        kv == [b \in DOMAIN key |-> [h \in DOMAIN key[b] |-> [d \in DOMAIN key[b][h] |->
                  [m \in DOMAIN value[b][h] |-> RMul(key[b][h][d], value[b][h][m])]]]]
        state == next_state(kv, prev_state, gam)
        used == read_state(state, prev_state)
        retention == [b \in DOMAIN query |-> [h \in DOMAIN query[b] |->
                         [m \in DOMAIN value[b][h] |->
                             RSum([d \in DOMAIN query[b][h] |->
                                      RMul(query[b][h][d], used[b][h][d][m])],
                                  Size(query[b][h]))]]]
    IN  [retention |-> retention, state |-> state]

(***************************************************************************)
(* The caller of the kernels.  Each caller loop feeds one sequence to      *)
(* retention_recurrent step by step, keeping the returned state in its own *)
(* variable (a reference into the heap of tensors), and may hand the part  *)
(* of the sequence fed so far to retention_parallel in one call.           *)
(***************************************************************************)
Seeds == {1, 2}

\* Entry (b, h, d) of input tensor r (0 query, 1 key, 2 value) of input choice s.
InputEntry(s, r, b, h, d) ==
    Int2Rat(((2 * r + 2 * b + 2 * d + s * r + 2 * r * h + 2 * b * d) % 3) - 1)

StepInput(s, sh) ==
    LET T(r) == [b \in Idx(sh.B) |-> [h \in Idx(sh.H) |-> [d \in Idx(sh.D) |->
                    InputEntry(s, r, b, h, d)]]]
    IN  [query |-> T(0), key |-> T(1), value |-> T(2)]

\* The (b, h, n, d) tensor of field f of the first n steps of a sequence.
Stack(seq, f, n) ==
    [b \in DOMAIN seq[1][f] |-> [h \in DOMAIN seq[1][f][b] |->
        [i \in Idx(n) |-> seq[i + 1][f][b][h]]]]

\* The shapes of the caller's tensors: batch size B, head count H, head dimension D.
Shapes ==
    {[B |-> 1, H |-> 1, D |-> 1], [B |-> 2, H |-> 1, D |-> 1], [B |-> 1, H |-> 2, D |-> 1],
     [B |-> 1, H |-> 1, D |-> 2], [B |-> 2, H |-> 2, D |-> 2], [B |-> 1, H |-> 3, D |-> 3]}

\* The caller's explicit decay vectors: GammaSet in rotation over the heads.
GammaList == <<[n |-> 1, d |-> 2], [n |-> 3, d |-> 4], [n |-> 7, d |-> 8]>>
GammaVectors(H) == {[h \in Idx(H) |-> GammaList[((o + h) % 3) + 1]] : o \in 0 .. 2}

\* The tensors the call leaves on the heap: the returned state is a new tensor.
heap_after_call_inplace(h, prev_ref, new_ref, state) ==
    [x \in DOMAIN h \cup {new_ref} |->
        IF x = new_ref \/ (prev_ref # None /\ x = prev_ref[1]) THEN state ELSE h[x]]

heap_after_call(h, prev_ref, new_ref, state) ==
    [x \in DOMAIN h \cup {new_ref} |-> IF x = new_ref THEN state ELSE h[x]]

CallRecurrent(l) ==
    /\ Len(seqs[l]) < MaxLen
    /\ \E s \in Seeds :
          LET in == StepInput(s, shape)
              prev_state == IF refs[l] = None THEN None ELSE Some(heap[refs[l][1]])
              r == retention_recurrent(in.query, in.key, in.value, prev_state, gammas)
              new_ref == <<l, Len(seqs[l])>>
          IN  /\ seqs' = [seqs EXCEPT ![l] = Append(@, in)]
              /\ heap' = heap_after_call(heap, refs[l], new_ref, r.state)
              /\ refs' = [refs EXCEPT ![l] = Some(new_ref)]
              /\ outs' = [outs EXCEPT ![l] = Append(@, r.retention)]
              /\ last' = last \cup
                     {[query |-> in.query, key |-> in.key, value |-> in.value,
                       prev_state |-> prev_state, decay_gammas |-> gammas,
                       retention |-> r.retention, state |-> r.state]}
    /\ UNCHANGED <<decay, shape, gammas, par, scen, mhr, fwd>>

CallParallel(l) ==
    /\ Len(seqs[l]) >= 1
    /\ \E need_weights \in BOOLEAN :
          LET n == Len(seqs[l])
              r == retention_parallel(Stack(seqs[l], "query", n), Stack(seqs[l], "key", n),
                                      Stack(seqs[l], "value", n), gammas, need_weights)
          IN  par' = [loop |-> l, n |-> n, need_weights |-> need_weights,
                      retention |-> r.retention, weights |-> r.weights]
    /\ UNCHANGED <<decay, shape, gammas, seqs, refs, heap, outs, last, scen, mhr, fwd>>

InitCaller(loops, shapes) ==
    /\ decay = NoDecay
    /\ shape \in shapes
    /\ gammas \in {None} \cup {Some(g) : g \in GammaVectors(shape.H)}
    /\ seqs = [l \in loops |-> <<>>]
    /\ refs = [l \in loops |-> None]
    /\ heap = <<>>
    /\ outs = [l \in loops |-> <<>>]
    /\ last = {}
    /\ par = None
    /\ scen = None
    /\ mhr = None
    /\ fwd = None

Init == InitCaller({1}, Shapes)

Next == CallRecurrent(1) \/ CallParallel(1)

Spec == Init /\ [][Next]_vars

\* The decay vector the kernels of this caller work with.
EffGammas(decay_gammas, H) ==
    IF decay_gammas = None THEN _build_decay_gammas(H) ELSE decay_gammas[1]

(***************************************************************************)
(* C1: for every batch size, head count, head dimension, sequence length   *)
(* T >= 1 and decay vector, the output the i-th retention_recurrent call   *)
(* returned (prev_state None at first, then the state the previous call    *)
(* returned) equals row i of the output of one retention_parallel call on  *)
(* the whole length-T query, key and value with the same decay vector.     *)
(***************************************************************************)
C1_RecurrentMatchesParallel ==
    par # None =>
        /\ Len(outs[par.loop]) >= par.n
        /\ \A i \in Idx(par.n), b \in Idx(shape.B), h \in Idx(shape.H), m \in Idx(shape.D) :
              outs[par.loop][i + 1][b][h][m] = par.retention[b][h][i][m]

C1_Witness ==
    /\ par # None
    /\ par.n = 3
    /\ shape = [B |-> 2, H |-> 2, D |-> 2]
    /\ gammas # None
    /\ par.retention[1][1][2] # par.retention[1][1][1]
    /\ par.retention[1][1][1] # par.retention[1][1][0]
    /\ par.retention[1][1][2][0].d > 1
    /\ outs[1][3][1][1] = par.retention[1][1][2]

(***************************************************************************)
(* C5: every retention_recurrent call returns the state                    *)
(* key[b,h,d]*value[b,h,m] + gamma_h * prev_state[b,h,d,m] when it is      *)
(* given a previous state and exactly key[b,h,d]*value[b,h,m] when it is   *)
(* given None, and returns as output the contraction over d of the query   *)
(* with that new state, not with the previous one.                         *)
(***************************************************************************)
C5_RecurrentStateUpdate ==
    \A c \in last :
        LET gam == EffGammas(c.decay_gammas, shape.H)
        IN  \A b \in Idx(shape.B), h \in Idx(shape.H), m \in Idx(shape.D) :
               /\ \A d \in Idx(shape.D) :
                     c.state[b][h][d][m] =
                        IF c.prev_state = None
                        THEN RMul(c.key[b][h][d], c.value[b][h][m])
                        ELSE RAdd(RMul(c.key[b][h][d], c.value[b][h][m]),
                                  RMul(gam[h], c.prev_state[1][b][h][d][m]))
               /\ c.retention[b][h][m] =
                     RSum([d \in Idx(shape.D) |-> RMul(c.query[b][h][d], c.state[b][h][d][m])],
                          shape.D)

\* A first call (no previous state) and a later call whose output differs
\* from the contraction of its query with the previous state.
C5_Witness ==
    /\ \E c \in last : c.prev_state = None /\ c.state[0][0][0][0] # Zero
    /\ \E c \in last :
          /\ c.prev_state # None
          /\ c.state # c.prev_state[1]
          /\ c.retention[0][0][0] #
                RSum([d \in Idx(shape.D) |->
                         RMul(c.query[0][0][d], c.prev_state[1][0][0][d][0])], shape.D)

(***************************************************************************)
(* C10: after t >= 1 threaded retention_recurrent calls that started from  *)
(* None, the state is the sum over the steps j <= t of                     *)
(* gamma_h^(t-j) * key_j[b,h,d] * value_j[b,h,m], and the weight of step j *)
(* at step t is the decay-mask entry D[h,t,j].                             *)
(***************************************************************************)
C10_StateIsDecayedSum ==
    \A l \in DOMAIN seqs : \A t \in {Len(seqs[l])} \ {0} :
        LET gam == EffGammas(gammas, shape.H)
            D == _build_decay_mask(t, t, gam)
        IN  \A b \in Idx(shape.B), h \in Idx(shape.H), d \in Idx(shape.D), m \in Idx(shape.D) :
               /\ \A j \in 1 .. t : D[h][t - 1][j - 1] = GammaPower(gam[h], t - j)
               /\ heap[<<l, t - 1>>][b][h][d][m] =
                     RSum([j \in Idx(t) |->
                              RMul(GammaPower(gam[h], t - 1 - j),
                                   RMul(seqs[l][j + 1].key[b][h][d],
                                        seqs[l][j + 1].value[b][h][m]))], t)

C10_Witness ==
    /\ Len(seqs[1]) = 3
    /\ shape.H = 2
    /\ gammas = None
    /\ refs[1] = Some(<<1, 2>>)
    /\ heap[<<1, 2>>][0][1][0][0].d = 512 * 512
    /\ heap[<<1, 2>>] # heap[<<1, 1>>]

(***************************************************************************)
(* SpecInterleaved: two caller loops over independent sequences, their     *)
(* retention_recurrent calls interleaved in any order.                     *)
(***************************************************************************)
InterleavedShapes == {[B |-> 1, H |-> 1, D |-> 1], [B |-> 2, H |-> 2, D |-> 2]}

InitInterleaved == InitCaller({1, 2}, InterleavedShapes)

NextInterleaved == \E l \in {1, 2} : CallRecurrent(l)

SpecInterleaved == InitInterleaved /\ [][NextInterleaved]_vars

(***************************************************************************)
(* C9: retention_recurrent keeps nothing between calls and changes none of *)
(* its arguments: every tensor that exists before a call, the prev_state   *)
(* passed in among them, is the same after it (the new state is another    *)
(* tensor); any two calls with equal query, key, value, prev_state and     *)
(* decay vector returned equal output and state whatever was called in     *)
(* between; and a loop's outputs depend on its own sequence alone, however *)
(* the loops are interleaved.                                              *)
(***************************************************************************)
SameArguments(c1, c2) ==
    /\ c1.query = c2.query
    /\ c1.key = c2.key
    /\ c1.value = c2.value
    /\ c1.prev_state = c2.prev_state
    /\ c1.decay_gammas = c2.decay_gammas

C9_RecurrentIsPure ==
    [][/\ \A x \in DOMAIN heap : x \in DOMAIN heap' /\ heap'[x] = heap[x]
       /\ \A c1 \in last', c2 \in last' :
             SameArguments(c1, c2) => c1.retention = c2.retention /\ c1.state = c2.state
       /\ \A l1 \in DOMAIN seqs', l2 \in DOMAIN seqs' :
             \A n \in 1 .. Len(seqs'[l1]) :
                (n <= Len(seqs'[l2]) /\ SubSeq(seqs'[l1], 1, n) = SubSeq(seqs'[l2], 1, n))
                   => /\ outs'[l1][n] = outs'[l2][n]
                      /\ heap'[<<l1, n - 1>>] = heap'[<<l2, n - 1>>]]_vars

\* Both loops have fed the same two steps, one of them after the other had
\* moved on: four tensors on the heap, the earlier states intact.
C9_Witness ==
    /\ Len(seqs[1]) = 2
    /\ Len(seqs[2]) = 2
    /\ seqs[1] = seqs[2]
    /\ shape.B = 2
    /\ DOMAIN heap = {<<1, 0>>, <<1, 1>>, <<2, 0>>, <<2, 1>>}
    /\ heap[<<1, 0>>] = heap[<<2, 0>>]
    /\ heap[<<1, 1>>] = heap[<<2, 1>>]
    /\ heap[<<1, 0>>] # heap[<<1, 1>>]
    /\ outs[1] = outs[2]
    /\ Cardinality(last) = 2

(***************************************************************************)
(* The states of the variables before anything is called.                  *)
(***************************************************************************)
Idle ==
    /\ decay = NoDecay
    /\ shape = None
    /\ gammas = None
    /\ seqs = None
    /\ refs = None
    /\ heap = None
    /\ outs = None
    /\ last = None
    /\ par = None
    /\ scen = None
    /\ mhr = None
    /\ fwd = None

(***************************************************************************)
(* SpecDecay: a caller making one call of one of the two decay helpers.    *)
(***************************************************************************)
CallBuildDecayGammas ==
    /\ decay = NoDecay
    /\ \E num_heads \in 1 .. MaxHeads :
          decay' = [fn |-> "_build_decay_gammas", num_heads |-> num_heads,
                    query_length |-> 0, key_length |-> 0, decay_gammas |-> None,
                    result |-> _build_decay_gammas(num_heads)]
    /\ UNCHANGED <<shape, gammas, seqs, refs, heap, outs, last, par, scen, mhr, fwd>>

CallBuildDecayMask ==
    /\ decay = NoDecay
    /\ \E query_length \in 1 .. MaxLen, key_length \in 1 .. MaxLen, H \in 1 .. MaxDim :
          \E decay_gammas \in [Idx(H) -> GammaSet] :
             decay' = [fn |-> "_build_decay_mask", num_heads |-> H,
                       query_length |-> query_length, key_length |-> key_length,
                       decay_gammas |-> decay_gammas,
                       result |-> _build_decay_mask(query_length, key_length, decay_gammas)]
    /\ UNCHANGED <<shape, gammas, seqs, refs, heap, outs, last, par, scen, mhr, fwd>>

InitDecay == Idle

NextDecay == CallBuildDecayGammas \/ CallBuildDecayMask

SpecDecay == InitDecay /\ [][NextDecay]_vars

(***************************************************************************)
(* C2: in every mask _build_decay_mask returns, for every query length N   *)
(* and key length M (equal or not) and every head h, the entry D[h,i,j] of *)
(* a key position j strictly after the query position i is 0.              *)
(***************************************************************************)
MaskCalled == decay.fn = "_build_decay_mask"

C2_FutureKeysMasked ==
    MaskCalled =>
        \A h \in Idx(decay.num_heads), i \in Idx(decay.query_length),
           j \in Idx(decay.key_length) :
            j > i => decay.result[h][i][j] = Zero

C2_Witness ==
    /\ MaskCalled
    /\ decay.num_heads = 2
    /\ decay.query_length = 2
    /\ decay.key_length = 3
    /\ decay.result[1][0][2] = Zero

(***************************************************************************)
(* C3: every mask _build_decay_mask returns has shape (H, N, M), and for   *)
(* every head h and positions j <= i its entry D[h,i,j] is gamma_h to the  *)
(* power i - j (computed here by repeated multiplication); in particular   *)
(* every diagonal entry is 1.                                              *)
(***************************************************************************)
C3_PastKeysDecay ==
    MaskCalled =>
        /\ DOMAIN decay.result = Idx(decay.num_heads)
        /\ \A h \in Idx(decay.num_heads) :
              /\ DOMAIN decay.result[h] = Idx(decay.query_length)
              /\ \A i \in Idx(decay.query_length) :
                    /\ DOMAIN decay.result[h][i] = Idx(decay.key_length)
                    /\ \A j \in Idx(decay.key_length) :
                          /\ j <= i => decay.result[h][i][j] =
                                          GammaPower(decay.decay_gammas[h], i - j)
                          /\ j = i => decay.result[h][i][j] = One

C3_Witness ==
    /\ MaskCalled
    /\ decay.num_heads = 2
    /\ decay.query_length = 3
    /\ decay.key_length = 2
    /\ decay.decay_gammas[1] = [n |-> 3, d |-> 4]
    /\ decay.result[1][2][0] = [n |-> 9, d |-> 16]
    /\ decay.result[1][1][1] = One

(***************************************************************************)
(* C4: for every head count H >= 1, H = 1 included, every coefficient      *)
(* _build_decay_gammas(H) returns lies strictly between 0 and 1; the       *)
(* exponents run linearly from log(1/32) to log(1/512), so the first       *)
(* coefficient is 1 - 1/32, the last (H >= 2) is 1 - 1/512 and the others  *)
(* lie between the two.                                                    *)
(***************************************************************************)
GammasCalled == decay.fn = "_build_decay_gammas"

C4_GammasInUnitInterval ==
    GammasCalled =>
        /\ DOMAIN decay.result = Idx(decay.num_heads)
        /\ \A h \in Idx(decay.num_heads) :
              /\ RLess(Zero, decay.result[h])
              /\ RLess(decay.result[h], One)
              /\ ~RLess(decay.result[h], [n |-> 31, d |-> 32])
              /\ ~RLess([n |-> 511, d |-> 512], decay.result[h])
        /\ decay.result[0] = [n |-> 31, d |-> 32]
        /\ decay.num_heads >= 2 => decay.result[decay.num_heads - 1] = [n |-> 511, d |-> 512]

C4_Witness ==
    /\ GammasCalled
    /\ decay.num_heads = 4
    /\ RLess([n |-> 31, d |-> 32], decay.result[1])
    /\ RLess(decay.result[1], decay.result[2])
    /\ RLess(decay.result[2], [n |-> 511, d |-> 512])

C4_WitnessOneHead ==
    /\ GammasCalled
    /\ decay.num_heads = 1
    /\ decay.result = [h \in {0} |-> [n |-> 31, d |-> 32]]

(***************************************************************************)
(* SpecScenario: the configuration of the module's own demonstration       *)
(* (batch 1, sequence length 8, embedding 16 over 2 heads, so head         *)
(* dimension 8), with the same query, key and value vectors at every       *)
(* position, handed to retention_parallel.                                 *)
(***************************************************************************)
MainBatchSize == 1
MainSeqLen == 8
MainEmbedDim == 16
MainNumHeads == 2
MainHeadDim == MainEmbedDim \div MainNumHeads

\* The vectors fed: 1 a unit vector, 2 mixed signs, 3 all ones (per head h).
ScenarioVectors == {1, 2, 3}
ScenarioEntry(s, h, d) ==
    IF s = 1 THEN Int2Rat(IF d = h THEN 1 ELSE 0)
    ELSE IF s = 2 THEN Int2Rat(((d + 2 * h) % 3) - 1)
    ELSE Int2Rat(1)

ScenarioStep(s) ==
    [b \in Idx(MainBatchSize) |-> [h \in Idx(MainNumHeads) |-> [d \in Idx(MainHeadDim) |->
        ScenarioEntry(s, h, d)]]]

\* The (b, h, n, d) tensor holding the same (b, h, d) step at each of n positions.
Repeat(step, n) ==
    [b \in DOMAIN step |-> [h \in DOMAIN step[b] |-> [i \in Idx(n) |-> step[b][h]]]]

CallScenarioParallel ==
    /\ scen = None
    /\ \E sq \in ScenarioVectors, sk \in ScenarioVectors, sv \in ScenarioVectors,
          g \in GammaVectors(MainNumHeads), need_weights \in BOOLEAN :
          LET query == ScenarioStep(sq)
              key == ScenarioStep(sk)
              value == ScenarioStep(sv)
              r == retention_parallel(Repeat(query, MainSeqLen), Repeat(key, MainSeqLen),
                                      Repeat(value, MainSeqLen), Some(g), need_weights)
          IN  scen' = [query |-> query, key |-> key, value |-> value,
                       decay_gammas |-> g, need_weights |-> need_weights,
                       retention |-> r.retention, weights |-> r.weights]
    /\ UNCHANGED <<decay, shape, gammas, seqs, refs, heap, outs, last, par, mhr, fwd>>

InitScenario == Idle

NextScenario == CallScenarioParallel

SpecScenario == InitScenario /\ [][NextScenario]_vars

(***************************************************************************)
(* C7, as stated: with batch 1, 2 heads, sequence length 8 and head        *)
(* dimension 8 and the same query, key and value vector at every position, *)
(* the output of retention_parallel at position 0 equals the value vector  *)
(* at position 0.                                                          *)
(***************************************************************************)
ScenarioCalled == scen # None

C7_PositionZeroIsValue ==
    (ScenarioCalled /\ scen.query = scen.key /\ scen.key = scen.value) =>
        \A b \in Idx(MainBatchSize), h \in Idx(MainNumHeads), m \in Idx(MainHeadDim) :
            scen.retention[b][h][0][m] = scen.value[b][h][m]

(***************************************************************************)
(* C7, amended: in that configuration the output of retention_parallel at  *)
(* position 0 equals the value vector at position 0 multiplied, per head,  *)
(* by the dot product of the query and the key at position 0 (no softmax   *)
(* or other normalisation divides it out); it is the value vector itself   *)
(* only when that dot product is 1.                                        *)
(***************************************************************************)
C7_PositionZeroIsScaledValue ==
    ScenarioCalled =>
        \A b \in Idx(MainBatchSize), h \in Idx(MainNumHeads), m \in Idx(MainHeadDim) :
            scen.retention[b][h][0][m] =
                RMul(Dot(scen.query[b][h], scen.key[b][h]), scen.value[b][h][m])

C7_Witness ==
    /\ ScenarioCalled
    /\ scen.query = scen.key
    /\ scen.key = scen.value
    /\ Dot(scen.query[0][0], scen.key[0][0]) = Int2Rat(MainHeadDim)
    /\ scen.retention[0][0][0] = [m \in Idx(MainHeadDim) |-> Int2Rat(MainHeadDim)]
    /\ scen.retention[0][0][0] # scen.value[0][0]
    /\ scen.retention[0][0][MainSeqLen - 1] # scen.retention[0][0][0]

(***************************************************************************)
(* MultiheadRetention.  A Linear layer holds its weight matrix by rows,    *)
(* each row the list of its non-zero entries [c |-> column, w |-> weight], *)
(* and its bias (None without one).  What the group normalisation, the     *)
(* swish gate and the output projection return is kept as a term over      *)
(* their arguments: equal terms are equal numbers.                         *)
(***************************************************************************)
HeadDimMultiple == 8
MaxHeadDim == 128
MaxEmbed == 136     \* embedding dimensions given to the constructor

LayerNames == {"q_proj", "k_proj", "v_proj", "g_proj", "out_proj"}
WeightSeeds == {1, 2}

\* The weights a layer holds after _reset_parameters and training: row e of
\* the weight matrix of layer name under weight choice w.
WeightRow(name, w, e, E) ==
    CASE name = "q_proj" -> <<[c |-> e, w |-> One]>>
      [] name = "k_proj" ->
            <<[c |-> e, w |-> IF w = 2 /\ e % 2 = 1 THEN Int2Rat(-1) ELSE One]>>
      [] name = "v_proj" -> <<[c |-> IF w = 1 THEN e + 1 - 2 * (e % 2) ELSE e, w |-> One]>>
      [] name = "g_proj" -> <<[c |-> (e + w) % E, w |-> Int2Rat(-1)]>>
      [] OTHER -> <<[c |-> e, w |-> One], [c |-> (e + 1) % E, w |-> Int2Rat(-1)]>>

\* nn.Linear(embed_dim, embed_dim, bias=bias) with its bias reset to 0.
NewLinear(name, w, E, bias) ==
    [weight |-> [e \in Idx(E) |-> WeightRow(name, w, e, E)],
     bias |-> IF bias THEN Some([e \in Idx(E) |-> Zero]) ELSE None]

Raise(error, message) == [error |-> error, message |-> message, self |-> None]

head_dim_limit_dropped(head_dim) == TRUE

head_dim_limit(head_dim) == head_dim <= MaxHeadDim

\* MultiheadRetention.__init__; w stands for the random initial weights.
MultiheadRetention(embed_dim, num_heads, dropout, bias, batch_first, w) ==
    IF ~batch_first
    THEN Raise("NotImplementedError", "batch_first=False is not yet supported")
    ELSE IF embed_dim % num_heads # 0
    THEN Raise("ValueError", "embed_dim must be divisible by num_heads")
    ELSE LET head_dim == embed_dim \div num_heads
         IN  IF ~(head_dim % HeadDimMultiple = 0)
             THEN Raise("ValueError", "head_dim must be divisible by 8")
             ELSE IF ~head_dim_limit(head_dim)
             THEN Raise("ValueError", "head_dim must be <= 128")
             ELSE [error |-> "none", message |-> "",
                   self |-> Some(
                      [embed_dim |-> embed_dim, num_heads |-> num_heads,
                       dropout |-> dropout, bias |-> bias, batch_first |-> batch_first,
                       training |-> TRUE,
                       group_norm |-> [num_groups |-> num_heads, num_channels |-> num_heads],
                       layers |-> [name \in LayerNames |->
                                      NewLinear(name, w, embed_dim, bias)]])]

Construct ==
    /\ mhr = None
    /\ \E embed_dim \in 1 .. MaxEmbed, num_heads \in 1 .. MaxHeads,
          batch_first \in BOOLEAN, bias \in BOOLEAN, w \in WeightSeeds :
          LET r == MultiheadRetention(embed_dim, num_heads, 0, bias, batch_first, w)
          IN  /\ mhr' = [embed_dim |-> embed_dim, num_heads |-> num_heads,
                         batch_first |-> batch_first, bias |-> bias,
                         error |-> r.error, message |-> r.message, self |-> r.self]
              /\ fwd' = IF r.self = None THEN None
                        ELSE Some([seq |-> <<>>, prev_state |-> None, outs |-> <<>>,
                                   par |-> None])
    /\ UNCHANGED <<decay, shape, gammas, seqs, refs, heap, outs, last, par, scen>>

(***************************************************************************)
(* C6: constructing MultiheadRetention(embed_dim, num_heads, batch_first)  *)
(* fails, with no layer created, exactly when batch_first is false, or     *)
(* embed_dim is not divisible by num_heads, or head_dim = embed_dim /      *)
(* num_heads is not a multiple of 8, or head_dim exceeds 128; a false      *)
(* batch_first is reported first (NotImplementedError), whatever the       *)
(* dimensions; otherwise construction succeeds with all layers created.    *)
(***************************************************************************)
Constructed == mhr # None

C6_ConstructorValidation ==
    Constructed =>
        LET divisible == mhr.embed_dim % mhr.num_heads = 0
            head_dim == mhr.embed_dim \div mhr.num_heads
            bad == \/ ~mhr.batch_first
                   \/ ~divisible
                   \/ head_dim % 8 # 0
                   \/ head_dim > 128
        IN  /\ bad <=> mhr.error # "none"
            /\ mhr.error # "none" => mhr.self = None
            /\ ~mhr.batch_first <=> mhr.error = "NotImplementedError"
            /\ (mhr.embed_dim = 15 /\ mhr.num_heads = 2) => mhr.error # "none"
            /\ ~bad => /\ mhr.self # None
                       /\ DOMAIN mhr.self[1].layers = LayerNames

C6_Witness ==
    /\ Constructed
    /\ mhr.embed_dim = 136
    /\ mhr.num_heads = 1
    /\ mhr.batch_first
    /\ mhr.error = "ValueError"
    /\ mhr.self = None

C6_WitnessNotDivisible ==
    /\ Constructed
    /\ mhr.embed_dim = 15
    /\ mhr.num_heads = 2
    /\ mhr.batch_first
    /\ mhr.error = "ValueError"

C6_WitnessSuccess ==
    /\ Constructed
    /\ mhr.embed_dim = 128
    /\ mhr.num_heads = 1
    /\ mhr.error = "none"
    /\ mhr.self # None

(***************************************************************************)
(* The two forward paths.                                                  *)
(***************************************************************************)
\* A tensor of rank 1, 2, 3 or 4 holding its entries: the function t with
\* every entry evaluated once.
tensor1(t) == t @@ <<>>

tensor2(t) == [i \in DOMAIN t |-> tensor1(t[i])] @@ <<>>

tensor3(t) == [i \in DOMAIN t |-> tensor2(t[i])] @@ <<>>

tensor4(t) == [i \in DOMAIN t |-> tensor3(t[i])] @@ <<>>

\* nn.Linear applied to one vector x of numbers: x W^T + bias.
Linear(layer, x) ==
    tensor1([e \in DOMAIN layer.weight |->
        LET row == layer.weight[e]
        IN  RAdd(RSum([i \in Idx(Len(row)) |-> RMul(row[i + 1].w, x[row[i + 1].c])], Len(row)),
                 IF layer.bias = None THEN Zero ELSE layer.bias[1][e])])

\* nn.Linear applied to one vector y of terms: the linear combination, as a term.
LinearOfTerms(layer, y) ==
    [e \in DOMAIN layer.weight |->
        LET row == layer.weight[e]
        IN  [sum |-> [i \in 1 .. Len(row) |-> [w |-> row[i].w, x |-> y[row[i].c]]],
             bias |-> IF layer.bias = None THEN Zero ELSE layer.bias[1][e]]]

\* torch.nn.functional.silu of a number, as a term.
silu(x) == [silu |-> x]

\* F.dropout: the identity unless training with p > 0.
dropout(x, p, training) == IF ~training \/ p = 0 THEN x ELSE [random_mask_of |-> x]

\* nn.GroupNorm(num_groups, num_channels, affine=False) on u[i][c][l]: entry
\* (i, c, l) is normalised with the mean and variance of sample i over the
\* channels of c's group and all l.  The term keeps the entry and those values.
group_norm_pooled(gn, u) ==
    [i \in DOMAIN u |-> [c \in DOMAIN u[i] |-> [l \in DOMAIN u[i][c] |->
        [x |-> u[i][c][l], over |-> [ii \in DOMAIN u |-> u[ii][c]]]]]]

group_norm(gn, u) ==
    LET per_group == gn.num_channels \div gn.num_groups
    IN  [i \in DOMAIN u |-> [c \in DOMAIN u[i] |-> [l \in DOMAIN u[i][c] |->
            [x |-> u[i][c][l],
             over |-> [cc \in {k \in DOMAIN u[i] : k \div per_group = c \div per_group} |->
                          u[i][cc]]]]]]

\* rearrange(t, "b n (h d) -> b h n d", h=H)
split_heads_seq(t, H) ==
    [b \in DOMAIN t |-> [h \in Idx(H) |-> [n \in DOMAIN t[b] |->
        LET D == Size(t[b][n]) \div H
        IN  [d \in Idx(D) |-> t[b][n][h * D + d]]]]]

\* rearrange(t, "b (h d) -> b h d", h=H)
split_heads(t, H) ==
    [b \in DOMAIN t |-> [h \in Idx(H) |->
        LET D == Size(t[b]) \div H
        IN  [d \in Idx(D) |-> t[b][h * D + d]]]]

\* rearrange(t, "b h n d -> (b n) h d")
fold_sequence(t) ==
    LET N == Size(t[0][0])
    IN  [i \in Idx(Size(t) * N) |-> [h \in DOMAIN t[0] |-> t[i \div N][h][i % N]]]

\* rearrange(u, "(b n) h d -> b n (h d)", b=batch_size)
unfold_sequence(u, batch_size) ==
    LET N == Size(u) \div batch_size
        H == Size(u[0])
        D == Size(u[0][0])
    IN  [b \in Idx(batch_size) |-> [n \in Idx(N) |-> [e \in Idx(H * D) |->
            u[b * N + n][e \div D][e % D]]]]

\* rearrange(u, "b h d -> b (h d)")
merge_heads(u) ==
    LET H == Size(u[0])
        D == Size(u[0][0])
    IN  [b \in DOMAIN u |-> [e \in Idx(H * D) |-> u[b][e \div D][e % D]]]

\* self.out_proj(retention * gate) for one vector, gate = silu(self.g_proj(x)).
gated_output(self, retention, x) ==
    LET g == Linear(self.layers["g_proj"], x)
        gate == [e \in DOMAIN g |-> silu(g[e])]
    IN  LinearOfTerms(self.layers["out_proj"],
                      [e \in DOMAIN retention |-> [mul |-> <<retention[e], gate[e]>>]])

\* query, key, value: t[b][n][e].
forward_parallel(self, query, key, value, need_weights) ==
    LET proj(name, t) == [b \in DOMAIN t |-> [n \in DOMAIN t[b] |->
                             Linear(self.layers[name], t[b][n])]]
        q == tensor4(split_heads_seq(proj("q_proj", query), self.num_heads))
        k == tensor4(split_heads_seq(proj("k_proj", key), self.num_heads))
        v == tensor4(split_heads_seq(proj("v_proj", value), self.num_heads))
        r == retention_parallel(q, k, v, None, need_weights)
        batch_size == Size(r.retention)
        folded == tensor3(fold_sequence(r.retention))
        dropped == dropout(folded, self.dropout, self.training)
        normed == group_norm(self.group_norm, dropped)
        unfolded == unfold_sequence(normed, batch_size)
    IN  [retention |-> [b \in DOMAIN query |-> [n \in DOMAIN query[b] |->
                           gated_output(self, unfolded[b][n], query[b][n])]],
         weights |-> r.weights]

\* query, key, value: t[b][e]; prev_state: None or Some(S).
forward_recurrent(self, query, key, value, prev_state) ==
    LET proj(name, t) == [b \in DOMAIN t |-> Linear(self.layers[name], t[b])]
        q == tensor3(split_heads(proj("q_proj", query), self.num_heads))
        k == tensor3(split_heads(proj("k_proj", key), self.num_heads))
        v == tensor3(split_heads(proj("v_proj", value), self.num_heads))
        r == retention_recurrent(q, k, v, prev_state, None)
        dropped == dropout(tensor3(r.retention), self.dropout, self.training)
        normed == group_norm(self.group_norm, dropped)
        merged == merge_heads(normed)
    IN  [retention |-> [b \in DOMAIN query |-> gated_output(self, merged[b], query[b])],
         state |-> r.state]

\* Entry (b, e) of input r (0 query, 1 key, 2 value) of input choice s for a
\* layer of embedding dimension E: three non-zero components.
ModuleInputEntry(s, r, b, e, E) ==
    IF e \in {0, 1, E \div 2}
    THEN Int2Rat(IF (s * (r + 1) + e * (r + s) + b) % 2 = 0 THEN 1 ELSE -1)
    ELSE Zero

ModuleStepInput(s, E) ==
    LET T(r) == [b \in Idx(MainBatchSize) |-> [e \in Idx(E) |-> ModuleInputEntry(s, r, b, e, E)]]
    IN  [query |-> T(0), key |-> T(1), value |-> T(2)]

\* The (b, n, e) tensor of field f of the steps of a sequence.
StackSteps(seq, f) ==
    [b \in DOMAIN seq[1][f] |-> [n \in Idx(Len(seq)) |-> seq[n + 1][f][b]]]

\* The layers the forward paths are explored on: those of the smallest head
\* dimension, up to the embedding dimension of the script.
CanForward ==
    /\ fwd # None
    /\ mhr.embed_dim <= MainEmbedDim
    /\ mhr.embed_dim = mhr.num_heads * HeadDimMultiple

\* One more step of the sequence; a parallel result kept for the shorter
\* sequence is dropped.
CallForwardRecurrent ==
    /\ CanForward
    /\ Len(fwd[1].seq) < MaxLen
    /\ \E s \in Seeds :
          LET in == ModuleStepInput(s, mhr.embed_dim)
              r == forward_recurrent(mhr.self[1], in.query, in.key, in.value,
                                     fwd[1].prev_state)
          IN  fwd' = Some([seq |-> Append(fwd[1].seq, in),
                           prev_state |-> Some(r.state),
                           outs |-> Append(fwd[1].outs, r.retention),
                           par |-> None])
    /\ UNCHANGED <<decay, shape, gammas, seqs, refs, heap, outs, last, par, scen, mhr>>

CallForwardParallel ==
    /\ CanForward
    /\ Len(fwd[1].seq) >= 1
    /\ \E need_weights \in BOOLEAN :
          LET r == forward_parallel(mhr.self[1], StackSteps(fwd[1].seq, "query"),
                                    StackSteps(fwd[1].seq, "key"),
                                    StackSteps(fwd[1].seq, "value"), need_weights)
          IN  fwd' = Some([fwd[1] EXCEPT !.par =
                              Some([n |-> Len(fwd[1].seq), retention |-> r.retention,
                                    weights |-> r.weights])])
    /\ UNCHANGED <<decay, shape, gammas, seqs, refs, heap, outs, last, par, scen, mhr>>

InitModule == Idle

NextModule == Construct \/ CallForwardRecurrent \/ CallForwardParallel

SpecModule == InitModule /\ [][NextModule]_vars

(***************************************************************************)
(* C8: with dropout inactive, the output of forward_parallel on a length-T *)
(* sequence is, at every position i, the output of the i-th of T           *)
(* forward_recurrent calls that thread the returned state from None: the   *)
(* group normalisation of a (batch, position, head) vector uses that       *)
(* vector alone in the parallel path as in the recurrent one.              *)
(***************************************************************************)
C8_ForwardPathsAgree ==
    (fwd # None /\ fwd[1].par # None) =>
        LET p == fwd[1].par[1]
        IN  /\ Len(fwd[1].outs) >= p.n
            /\ \A i \in Idx(p.n), b \in Idx(MainBatchSize) :
                  fwd[1].outs[i + 1][b] = p.retention[b][i]

C8_Witness ==
    /\ fwd # None
    /\ fwd[1].par # None
    /\ fwd[1].par[1].n = 3
    /\ mhr.num_heads = 2
    /\ mhr.embed_dim = 16
    /\ fwd[1].par[1].retention[0][2] # fwd[1].par[1].retention[0][1]
    /\ fwd[1].par[1].retention[0][1] # fwd[1].par[1].retention[0][0]
    /\ fwd[1].outs[3][0] = fwd[1].par[1].retention[0][2]

====
